---- MODULE Spec2Model ----
(***************************************************************************)
(* Model of src/psb_can_msgs.py: the PsbCanMsgs codec (parameter store,    *)
(* encoder, decoder, receive timestamps).                                  *)
(*                                                                         *)
(* Physical quantities given to the setters are whole numbers of volts,    *)
(* amperes, watts.  The scale factors are kept exactly, in units of 1e-9.  *)
(* A decoded physical value (a Python float) is the fixed-point pair       *)
(* <<whole, nano>> standing for whole + nano * 1e-9.                       *)
(***************************************************************************)
EXTENDS Integers, Sequences, FiniteSets, TLC

\* ---------------------------------------------------------------- bounds
MaxDev == 1
MaxTime == 1
MaxPhys == 100

\* ------------------------------------------------------------- constants
\* CycleReadIdAllocations
STATUS == 256
ACTUAL_VALUES == 257
SET_VALUES_PS == 258
LIMITS_1_PS == 259
LIMITS_2_PS == 260
SET_VALUES_EL == 261
LIMITS_1_EL == 262
\* CycleSendIdAllocations
CONTROL == 512
SET_VALUES_1_PS == 513
SET_VALUES_1_EL == 514

\* PsbCanMsgs.VALUE_SCALE, in units of 1e-9
VALUE_SCALE == [p |-> 572213321, u |-> 19073777, i |-> 1525902, r |-> 12397955]

\* PsbCanMsgs.DEVICES_AMOUNT, the class attribute
DEVICES_AMOUNT == 3

Nano == 10 ^ 9

\* Python's None, among the non-negative numbers the setters are given
None == 0 - 1

\* An empty dict
EmptyDict == [k \in {} |-> 0]

\* ------------------------------------------------------------ arithmetic
\* <<q, r>> with a * b = q * m + r and 0 <= r < m, by doubling: no intermediate
\* value exceeds 2 * m + a (a * b itself may exceed 2^31).  h is the pair for
\* a * (b \div 2).
MulDivStep(h, a, b, m) ==
    <<2 * h[1] + (2 * h[2]) \div m + (((2 * h[2]) % m) + (b % 2) * (a % m)) \div m
        + (b % 2) * (a \div m),
      (((2 * h[2]) % m) + (b % 2) * (a % m)) % m>>

RECURSIVE MulDivRem(_, _, _)
MulDivRem(a, b, m) ==
    IF b = 0 THEN <<0, 0>> ELSE MulDivStep(MulDivRem(a, b \div 2, m), a, b, m)

\* int(v / scale): v whole units (0 .. MaxPhys), scale in 1e-9 units
IntDivTable ==
    [scale \in {VALUE_SCALE[k] : k \in DOMAIN VALUE_SCALE} |->
        [v \in 0 .. MaxPhys |-> MulDivRem(Nano, v, scale)[1]]]

IntDiv(v, scale) == IntDivTable[scale][v]

\* raw * scale * dev as a fixed-point pair <<whole, nano>>
ScaleMul(raw, scale, dev) == MulDivRem(scale, raw * dev, Nano)

\* struct.pack('>H', x), struct.pack('<H', x)
PackBE(x) == <<x \div 256, x % 256>>
PackLE(x) == <<x % 256, x \div 256>>
\* struct.unpack of the k-th 16-bit field of data
UnpackBE(data, k) == 256 * data[2 * k - 1] + data[2 * k]
UnpackLE(data, k) == data[2 * k - 1] + 256 * data[2 * k]

Message(id, data) == [arbitration_id |-> id, dlc |-> 8, data |-> data]

\* ---------------------------------------------------------------- encoder
\* mutant of _status_msg: the two flags in each other's bit
_status_msg_swapped(output, remote_control) ==
    LET value == output + remote_control * 2
    IN  Message(CONTROL, PackBE(value * 256))

_status_msg(output, remote_control) ==
    LET value == output * 2 + remote_control
    IN  Message(CONTROL, PackBE(value * 256))

_set_sour_values(u, i, p, r) ==
    LET p1 == IF p = None THEN u * i ELSE p
        ur == IntDiv(u, VALUE_SCALE.u)
        ir == IntDiv(i, VALUE_SCALE.i) \div DEVICES_AMOUNT
        pr == IntDiv(p1, VALUE_SCALE.p) \div DEVICES_AMOUNT
    IN  Message(SET_VALUES_1_PS, PackBE(ur) \o PackBE(ir) \o PackBE(pr) \o PackBE(r))

_set_sink_values(i, p, r) ==
    LET ir == IntDiv(i, VALUE_SCALE.i) \div DEVICES_AMOUNT
        pr == IntDiv(p, VALUE_SCALE.p) \div DEVICES_AMOUNT
    IN  Message(SET_VALUES_1_EL, PackBE(ir) \o PackBE(pr) \o PackBE(r))

\* ----------------------------------------------------------------- state
VARIABLES
    self_DEVICES_AMOUNT,  \* the instance attribute DEVICES_AMOUNT
    _set_sour_params,     \* SourceParams
    _set_sink_params,     \* SinkParams
    _set_status_params,   \* StatusParams
    set_msgs_map,         \* send id -> outgoing message
    _prev_recv_time,      \* id -> time of the last decode_msg
    _actual_vals,
    _set_sour_vals,
    _set_sink_vals,
    _status_vals,
    now,                  \* what time.time() returns
    p_given,              \* a source power was given, to __init__ or to a setter
    call,                 \* the last call: [op |-> name, ...arguments]
    err,                  \* how the last call ended
    ret                   \* what the last call returned

store == <<self_DEVICES_AMOUNT, _set_sour_params, _set_sink_params, _set_status_params,
           set_msgs_map, p_given>>
caches == <<_actual_vals, _set_sour_vals, _set_sink_vals, _status_vals>>
vars == <<store, caches, _prev_recv_time, now, call, err, ret>>

supported_read_can_ids == {ACTUAL_VALUES, STATUS, SET_VALUES_PS, SET_VALUES_EL}

\* ---------------------------------------------------------------- inputs
\* The setters are given whole physical values whose raw counts fit the 16-bit
\* fields (struct.pack raises on any other, after the store was written); the
\* inbound frames carry dlc = 8 payload bytes.
DeviceAmounts == {DEVICES_AMOUNT} \cup (1 .. MaxDev)
SourOverrides == {EmptyDict, [p |-> None]}
SinkOverrides == {EmptyDict}
UVals == {None, 5, 10}
IVals == {None, 3}
PVals == {None, 40}
RVals == {None, 0, 2}

\* ----------------------------------------------------------- construction
__init__(set_sour_values, set_sink_values, device_amount) ==
        LET sour == set_sour_values @@ [u |-> 0, i |-> 0, p |-> 0, r |-> 0]
            sink == set_sink_values @@ [i |-> 0, p |-> 0, r |-> 0]
            stat == [remote_control |-> 1, output |-> 0]
        IN  /\ _set_sour_params = sour
            /\ _set_sink_params = sink
            /\ _set_status_params = stat
            /\ self_DEVICES_AMOUNT = device_amount
            /\ set_msgs_map =
                 (CONTROL :> _status_msg(stat.output, stat.remote_control))
                 @@ (SET_VALUES_1_PS :> _set_sour_values(sour.u, sour.i, sour.p, sour.r))
                 @@ (SET_VALUES_1_EL :> _set_sink_values(sink.i, sink.p, sink.r))
            /\ now = 0
            /\ _prev_recv_time = [k \in supported_read_can_ids |-> now]
            /\ _actual_vals = EmptyDict
            /\ _set_sour_vals = EmptyDict
            /\ _set_sink_vals = EmptyDict
            /\ _status_vals = EmptyDict
            /\ p_given = ("p" \in DOMAIN set_sour_values)
            /\ call = [op |-> "__init__"]
            /\ err = "none"
            /\ ret = None

Init ==
    \E set_sour_values \in SourOverrides, set_sink_values \in SinkOverrides,
       device_amount \in DeviceAmounts :
        __init__(set_sour_values, set_sink_values, device_amount)

\* construction without overrides of the stored parameters
InitDefault ==
    \E device_amount \in DeviceAmounts : __init__(EmptyDict, EmptyDict, device_amount)

\* ---------------------------------------------------- update msg methods
\* mutant of update_set_sour_msg: the message is rebuilt but the map keeps the old one
update_set_sour_msg_unstored(map, sour) == map

update_set_sour_msg(map, sour) ==
    [map EXCEPT ![SET_VALUES_1_PS] = _set_sour_values(sour.u, sour.i, sour.p, sour.r)]

update_set_sink_msg(map, sink) ==
    [map EXCEPT ![SET_VALUES_1_EL] = _set_sink_values(sink.i, sink.p, sink.r)]

update_status_msg(map, stat) ==
    [map EXCEPT ![CONTROL] = _status_msg(stat.output, stat.remote_control)]

\* -------------------------------------------------- high level set methods
\* the assignments of set_sour_params to the stored source parameters
sour_params_set(sour, u, i, p, r) ==
    [u |-> IF u # None THEN u ELSE sour.u,
     i |-> IF i # None THEN i ELSE sour.i,
     p |-> IF p # None THEN p ELSE sour.p,
     r |-> IF r # None THEN r ELSE sour.r]

\* the assignments of set_sink_params to the stored sink parameters
sink_params_set(sink, i, p, r) ==
    [i |-> IF i # None THEN i ELSE sink.i,
     p |-> IF p # None THEN p ELSE sink.p,
     r |-> IF r # None THEN r ELSE sink.r]

\* mutant of sink_forward_u: the voltage is not forwarded
sink_forward_u_dropped(sour, u) == sour

\* mutant of sink_forward_u: the forwarded call passes 0 for i and p
sink_forward_u_clobber(sour, u) ==
    IF u # None THEN sour_params_set(sour, u, 0, 0, 0) ELSE sour

\* the source parameters after set_sink_params: u is forwarded as
\* self.set_sour_params(u=u), whose i and p default to None and r to 0
sink_forward_u(sour, u) ==
    IF u # None THEN sour_params_set(sour, u, None, None, 0) ELSE sour

Returned(c, m) == call' = c /\ err' = "none" /\ ret' = m

set_sour_params ==
    \E u \in UVals, i \in IVals, p \in PVals, r \in RVals :
        \E sour \in {sour_params_set(_set_sour_params, u, i, p, r)} :
        \E map \in {update_set_sour_msg(set_msgs_map, sour)} :
            /\ _set_sour_params' = sour
            /\ set_msgs_map' = map
            /\ p_given' = (p_given \/ p # None)
            /\ Returned([op |-> "set_sour_params", u |-> u, i |-> i, p |-> p, r |-> r],
                        map[SET_VALUES_1_PS])
            /\ UNCHANGED <<self_DEVICES_AMOUNT, _set_sink_params, _set_status_params,
                           caches, _prev_recv_time, now>>

set_sink_params ==
    \E u \in UVals, i \in IVals, p \in PVals, r \in RVals :
        \E sour \in {sink_forward_u(_set_sour_params, u)},
           sink \in {sink_params_set(_set_sink_params, i, p, r)} :
        \E map1 \in {IF u # None THEN update_set_sour_msg(set_msgs_map, sour)
                      ELSE set_msgs_map} :
        \E map2 \in {update_set_sink_msg(map1, sink)} :
            /\ _set_sour_params' = sour
            /\ _set_sink_params' = sink
            /\ set_msgs_map' = map2
            /\ Returned([op |-> "set_sink_params", u |-> u, i |-> i, p |-> p, r |-> r],
                        map2[SET_VALUES_1_EL])
            /\ UNCHANGED <<self_DEVICES_AMOUNT, _set_status_params, p_given,
                           caches, _prev_recv_time, now>>

\* remote_on, remote_off, output_on, output_off: one flag, then update_status_msg
SetStatus(op, stat) ==
    \E map \in {update_status_msg(set_msgs_map, stat)} :
        /\ _set_status_params' = stat
        /\ set_msgs_map' = map
        /\ Returned([op |-> op], map[CONTROL])
        /\ UNCHANGED <<self_DEVICES_AMOUNT, _set_sour_params, _set_sink_params,
                       p_given, caches, _prev_recv_time, now>>

remote_on == SetStatus("remote_on", [_set_status_params EXCEPT !.remote_control = 1])
remote_off == SetStatus("remote_off", [_set_status_params EXCEPT !.remote_control = 0])
output_on == SetStatus("output_on", [_set_status_params EXCEPT !.output = 1])
output_off == SetStatus("output_off", [_set_status_params EXCEPT !.output = 0])

\* ------------------------------------------------------------------ clock
Tick ==
    /\ now < MaxTime
    /\ now' = now + 1
    /\ call' = [op |-> "tick"]
    /\ err' = "none"
    /\ ret' = None
    /\ UNCHANGED <<store, caches, _prev_recv_time>>

Max(S) == CHOOSE x \in S : \A y \in S : y <= x

Range(f) == {f[k] : k \in DOMAIN f}

longest_time_since_recv ==
    /\ call' = [op |-> "longest_time_since_recv"]
    /\ err' = "none"
    /\ ret' = Max(Range(_prev_recv_time))
    /\ UNCHANGED <<store, caches, _prev_recv_time, now>>

\* ---------------------------------------------------------- decode methods
\* mutant of get_bit_by_idx: the payload read as a little-endian integer
get_bit_by_idx_little(num, idx) ==
    LET k == 1 + (idx \div 8)
    IN  IF k > Len(num) THEN 0 ELSE (num[k] \div (2 ^ (idx % 8))) % 2

\* (num >> idx) & 1, num being the base-256 big-endian numeral int.from_bytes reads
get_bit_by_idx(num, idx) ==
    LET k == Len(num) - (idx \div 8)
    IN  IF k < 1 THEN 0 ELSE (num[k] \div (2 ^ (idx % 8))) % 2

is_bit_at(num, idx) == get_bit_by_idx(num, idx) # 0

Raise(e) == [err |-> e, vals |-> EmptyDict]
Decoded(vals) == [err |-> "none", vals |-> vals]

_decode_actual_values(msg, dev) ==
    IF msg.arbitration_id # ACTUAL_VALUES THEN Raise("ValueError")
    ELSE LET data == SubSeq(msg.data, 1, 6)
         IN  Decoded([u |-> ScaleMul(UnpackBE(data, 1), VALUE_SCALE.u, 1),
                      i |-> ScaleMul(UnpackBE(data, 2), VALUE_SCALE.i, dev),
                      p |-> ScaleMul(UnpackBE(data, 3), VALUE_SCALE.p, dev)])

_decode_status_msg(msg) ==
    IF msg.arbitration_id # STATUS THEN Raise("ValueError")
    ELSE LET data_int == msg.data
         IN  Decoded([remote_control |-> is_bit_at(data_int, 31),
                      dc_input_terminal |-> is_bit_at(data_int, 30),
                      uir_mode |-> ~is_bit_at(data_int, 28),
                      uip_mode |-> is_bit_at(data_int, 28),
                      alarms |-> is_bit_at(data_int, 27),
                      alarm_msp_map |-> is_bit_at(data_int, 26),
                      alarm_ocd |-> is_bit_at(data_int, 25),
                      alarm_ocp |-> is_bit_at(data_int, 24),
                      alarm_opd |-> is_bit_at(data_int, 18),
                      alarm_opp |-> is_bit_at(data_int, 17),
                      alarm_ot |-> is_bit_at(data_int, 16),
                      alarm_ovd |-> is_bit_at(data_int, 14),
                      alarm_ovp |-> is_bit_at(data_int, 13),
                      rem_sb |-> is_bit_at(data_int, 9),
                      alarm_ucd |-> is_bit_at(data_int, 8),
                      alarm_uvd |-> is_bit_at(data_int, 7),
                      external_remote_sensing |-> is_bit_at(data_int, 6),
                      internal_remote_sensing |-> ~is_bit_at(data_int, 6),
                      function_gen_active |-> is_bit_at(data_int, 5),
                      master |-> is_bit_at(data_int, 4),
                      slave |-> ~is_bit_at(data_int, 4),
                      input_output |-> is_bit_at(data_int, 3),
                      sink_mode |-> is_bit_at(data_int, 0),
                      sour_mode |-> ~is_bit_at(data_int, 0)])

_decode_set_sour_values(msg, dev) ==
    IF msg.arbitration_id # SET_VALUES_PS THEN Raise("ValueError")
    ELSE Decoded([u |-> ScaleMul(UnpackLE(msg.data, 1), VALUE_SCALE.u, 1),
                  i |-> ScaleMul(UnpackLE(msg.data, 2), VALUE_SCALE.i, dev),
                  p |-> ScaleMul(UnpackLE(msg.data, 3), VALUE_SCALE.p, dev),
                  r |-> ScaleMul(UnpackLE(msg.data, 4), VALUE_SCALE.r, 1)])

_decode_set_sink_values(msg, dev) ==
    IF msg.arbitration_id # SET_VALUES_EL THEN Raise("ValueError")
    ELSE Decoded([i |-> ScaleMul(UnpackLE(msg.data, 1), VALUE_SCALE.i, dev),
                  p |-> ScaleMul(UnpackLE(msg.data, 2), VALUE_SCALE.p, dev),
                  r |-> ScaleMul(UnpackLE(msg.data, 3), VALUE_SCALE.r, 1)])

\* mutant of decode_method_map: an id the map lacks is decoded as actual values
decode_method_map_fallthrough(msg, dev) ==
    CASE msg.arbitration_id = STATUS -> _decode_status_msg(msg)
      [] msg.arbitration_id = SET_VALUES_PS -> _decode_set_sour_values(msg, dev)
      [] msg.arbitration_id = SET_VALUES_EL -> _decode_set_sink_values(msg, dev)
      [] OTHER -> _decode_actual_values([msg EXCEPT !.arbitration_id = ACTUAL_VALUES], dev)

\* decode_method_map[id](msg); a KeyError becomes the ValueError of decode_msg
decode_method_map(msg, dev) ==
    CASE msg.arbitration_id = ACTUAL_VALUES -> _decode_actual_values(msg, dev)
      [] msg.arbitration_id = STATUS -> _decode_status_msg(msg)
      [] msg.arbitration_id = SET_VALUES_PS -> _decode_set_sour_values(msg, dev)
      [] msg.arbitration_id = SET_VALUES_EL -> _decode_set_sink_values(msg, dev)
      [] OTHER -> Raise("ValueError")

\* self._prev_recv_time[msg.arbitration_id] = time.time(), before the lookup
stamp_recv_time(times, id, t) == (id :> t) @@ times

\* dict.update of the cache the id belongs to
cache_update(cache, id, res, own) ==
    IF id = own /\ res.err = "none" THEN res.vals @@ cache ELSE cache

DecodeMsg(op, msg) ==
    \E id \in {msg.arbitration_id}, res \in {decode_method_map(msg, self_DEVICES_AMOUNT)} :
        /\ _prev_recv_time' = stamp_recv_time(_prev_recv_time, id, now)
        /\ _actual_vals' = cache_update(_actual_vals, id, res, ACTUAL_VALUES)
        /\ _status_vals' = cache_update(_status_vals, id, res, STATUS)
        /\ _set_sour_vals' = cache_update(_set_sour_vals, id, res, SET_VALUES_PS)
        /\ _set_sink_vals' = cache_update(_set_sink_vals, id, res, SET_VALUES_EL)
        /\ call' = [op |-> op, msg |-> msg]
        /\ err' = res.err
        /\ ret' = IF res.err = "none" THEN res.vals ELSE None
        /\ UNCHANGED <<store, now>>

\* ----------------------------------------------------------- inbound frames
\* the raw fields (1000, 1000, 1000, r), big-endian and little-endian
BytesBE(r) == PackBE(1000) \o PackBE(1000) \o PackBE(1000) \o PackBE(r)
BytesLE(r) == PackLE(1000) \o PackLE(1000) \o PackLE(1000) \o PackLE(r)

InboundMsgs ==
    {Message(ACTUAL_VALUES, BytesBE(0)), Message(ACTUAL_VALUES, BytesLE(7)),
     Message(SET_VALUES_PS, BytesLE(1)),
     Message(SET_VALUES_EL, BytesLE(2)),
     Message(STATUS, <<0, 0, 0, 0, 128, 0, 0, 0>>), Message(STATUS, <<0, 0, 0, 0, 0, 0, 0, 17>>),
     Message(LIMITS_1_PS, BytesBE(0))}

decode_msg == \E msg \in InboundMsgs : DecodeMsg("decode_msg", msg)

decode_if_supported ==
    \E msg \in InboundMsgs :
        IF msg.arbitration_id \in supported_read_can_ids
        THEN DecodeMsg("decode_if_supported", msg)
        ELSE /\ call' = [op |-> "decode_if_supported", msg |-> msg]
             /\ err' = "none"
             /\ ret' = FALSE
             /\ UNCHANGED <<store, caches, _prev_recv_time, now>>

NextDec ==
    \/ decode_msg
    \/ decode_if_supported
    \/ longest_time_since_recv
    \/ Tick

SpecDec == InitDefault /\ [][NextDec]_vars

\* every payload with exactly one of its 64 bits set
SingleBit(b) == [k \in 1 .. 8 |-> IF k = 8 - (b \div 8) THEN 2 ^ (b % 8) ELSE 0]

StatusMsgs ==
    {Message(STATUS, SingleBit(b)) : b \in 0 .. 63}
    \cup {Message(STATUS, [k \in 1 .. 8 |-> 0]), Message(STATUS, [k \in 1 .. 8 |-> 255]),
          Message(STATUS, <<0, 0, 0, 0, 144, 7, 66, 81>>)}

\* decode_msg on the STATUS frames
decode_status == \E msg \in StatusMsgs : DecodeMsg("decode_status", msg)

\* the frame a device echoes for an outgoing source-set message: the same four
\* raw fields under the id SET_VALUES_PS, in the byte order the decoder reads
EchoOf(msg) ==
    Message(SET_VALUES_PS,
            PackLE(UnpackBE(msg.data, 1)) \o PackLE(UnpackBE(msg.data, 2))
            \o PackLE(UnpackBE(msg.data, 3)) \o PackLE(UnpackBE(msg.data, 4)))

\* decode_msg on the echo of the current source-set message
decode_echo == DecodeMsg("decode_echo", EchoOf(set_msgs_map[SET_VALUES_1_PS]))

NextSet ==
    \/ set_sour_params
    \/ set_sink_params
    \/ remote_on
    \/ remote_off
    \/ output_on
    \/ output_off

SpecSet == Init /\ [][NextSet]_vars
NextStatus == decode_status \/ Tick

SpecStatus == InitDefault /\ [][NextStatus]_vars

NextRT == set_sour_params \/ decode_echo

SpecRT == Init /\ [][NextRT]_vars

Next == NextSet \/ NextDec \/ NextStatus \/ NextRT

Spec == Init /\ [][Next]_vars

\* =================================================================== claims
SendIds == {CONTROL, SET_VALUES_1_PS, SET_VALUES_1_EL}
StatusOps == {"remote_on", "remote_off", "output_on", "output_off"}
SourMsg == set_msgs_map[SET_VALUES_1_PS]
SinkMsg == set_msgs_map[SET_VALUES_1_EL]

C5_ControlValue ==
    /\ set_msgs_map[CONTROL].arbitration_id = CONTROL
    /\ set_msgs_map[CONTROL].data =
         <<_set_status_params.output * 2 + _set_status_params.remote_control, 0>>
    /\ (call.op = "__init__" => set_msgs_map[CONTROL].data = <<1, 0>>)
    /\ (_set_status_params.output = 1 /\ _set_status_params.remote_control = 0
          => UnpackBE(set_msgs_map[CONTROL].data, 1) = 2 * 256)
    /\ (_set_status_params.output = 0 /\ _set_status_params.remote_control = 1
          => UnpackBE(set_msgs_map[CONTROL].data, 1) = 1 * 256)

\* remote_off called while the output is on: the control value is 2
C5_Witness ==
    /\ call.op = "remote_off"
    /\ _set_status_params.output = 1
    /\ ret.data = <<2, 0>>

\* C6: after set_sink_params with a voltage u = v, the stored source voltage is
\* v, the source-set message of the outgoing map encodes v in its u field, and
\* the call rebuilt and returned the sink-set message.
C6_SinkVoltageSetsSource ==
    (call.op = "set_sink_params" /\ call.u # None) =>
        /\ _set_sour_params.u = call.u
        /\ UnpackBE(SourMsg.data, 1) = IntDiv(call.u, VALUE_SCALE.u)
        /\ SinkMsg = _set_sink_values(_set_sink_params.i, _set_sink_params.p,
                                      _set_sink_params.r)
        /\ ret = SinkMsg

\* set_sink_params(u=5) alone: the source voltage reads back 5, raw 262
C6_Witness ==
    /\ call.op = "set_sink_params"
    /\ call.u = 5
    /\ call.i = None
    /\ _set_sour_params.u = 5
    /\ UnpackBE(SourMsg.data, 1) = 262

\* C8: when no source power was ever supplied and set_sour_params is called
\* with u and i but no p, the power field of the source-set message is
\* int(u * i / scale.p / device count).
C8_DerivedPower ==
    (/\ ~p_given
     /\ call.op = "set_sour_params"
     /\ call.u # None
     /\ call.i # None
     /\ call.p = None) =>
        UnpackBE(SourMsg.data, 3) =
            IntDiv(call.u * call.i, VALUE_SCALE.p) \div DEVICES_AMOUNT

\* C10 as claimed: set_sink_params with a voltage leaves the stored source i,
\* p and r and the i, p and r fields of the source-set message as they were;
\* without a voltage it leaves the source parameters and message unchanged.
C10_SinkKeepsSourceIPR ==
    [][call'.op = "set_sink_params" =>
         IF call'.u # None
         THEN /\ _set_sour_params'.i = _set_sour_params.i
              /\ _set_sour_params'.p = _set_sour_params.p
              /\ _set_sour_params'.r = _set_sour_params.r
              /\ SubSeq(SourMsg'.data, 3, 8) = SubSeq(SourMsg.data, 3, 8)
         ELSE /\ _set_sour_params' = _set_sour_params
              /\ SourMsg' = SourMsg]_vars

\* C10 as amended: set_sink_params with a voltage leaves the stored source i
\* and p and the i field of the source-set message as they were, and the p
\* field too unless the stored p is None (the field is then u * i of the new
\* u); the stored r and the r field become 0, the default r of the forwarded
\* call.  Without a voltage the source parameters and message are unchanged.
C10_SinkKeepsSourceIPResetsR ==
    [][call'.op = "set_sink_params" =>
         IF call'.u # None
         THEN /\ _set_sour_params'.i = _set_sour_params.i
              /\ _set_sour_params'.p = _set_sour_params.p
              /\ _set_sour_params'.r = 0
              /\ UnpackBE(SourMsg'.data, 2) = UnpackBE(SourMsg.data, 2)
              /\ (_set_sour_params.p # None =>
                    UnpackBE(SourMsg'.data, 3) = UnpackBE(SourMsg.data, 3))
              /\ UnpackBE(SourMsg'.data, 4) = 0
         ELSE /\ _set_sour_params' = _set_sour_params
              /\ SourMsg' = SourMsg]_vars

\* a sink setter with a voltage, on a source whose i and p were set before
C10_Witness ==
    /\ call.op = "set_sink_params"
    /\ call.u = 5
    /\ _set_sour_params = [u |-> 5, i |-> 3, p |-> 40, r |-> 0]
    /\ UnpackBE(SourMsg.data, 2) = 655
    /\ UnpackBE(SourMsg.data, 3) = 23

\* C1: decode_msg on a message whose id is none of the four supported read
\* ids ends in the ValueError and leaves the four cached value mappings as
\* they were before the call.
C1_UnsupportedIdRejected ==
    [][(call'.op = "decode_msg"
        /\ call'.msg.arbitration_id \notin supported_read_can_ids) =>
           /\ err' = "ValueError"
           /\ ret' = None
           /\ UNCHANGED caches]_vars

\* decode_msg of LIMITS_1_PS was rejected with all four caches filled
C1_Witness ==
    /\ call.op = "decode_msg"
    /\ call.msg.arbitration_id = LIMITS_1_PS
    /\ err = "ValueError"
    /\ DOMAIN _actual_vals = {"u", "i", "p"}
    /\ DOMAIN _set_sour_vals = {"u", "i", "p", "r"}
    /\ DOMAIN _set_sink_vals = {"i", "p", "r"}
    /\ "remote_control" \in DOMAIN _status_vals

\* C2: the receive-timestamp map always has exactly the four supported read
\* ids as keys, the timestamp of an id changes only in a step where a decode
\* of a message with that id succeeds, and a decode_msg that ends in an error
\* leaves the whole map unchanged.
C2_RejectedDecodeKeepsTimestamps ==
    [][/\ DOMAIN _prev_recv_time' = supported_read_can_ids
       /\ \A k \in supported_read_can_ids :
            _prev_recv_time'[k] # _prev_recv_time[k] =>
                /\ call'.op \in {"decode_msg", "decode_if_supported"}
                /\ call'.msg.arbitration_id = k
                /\ err' = "none"
       /\ (call'.op = "decode_msg" /\ err' # "none" =>
             _prev_recv_time' = _prev_recv_time)]_vars

Min(S) == CHOOSE x \in S : \A y \in S : x <= y

\* C3: longest_time_since_recv returns the age of the stalest supported read
\* id: the current time minus the earliest of the four last-decode timestamps.
C3_LongestTimeIsStalestAge ==
    call.op = "longest_time_since_recv" =>
        ret = now - Min({_prev_recv_time[k] : k \in supported_read_can_ids})

\* |fix - v| <= tol * 1e-9, for a fixed-point pair fix, a whole number v and
\* a tolerance below one unit
Within(fix, v, tol) ==
    \/ fix[1] = v /\ fix[2] <= tol
    \/ fix[1] = v - 1 /\ Nano - fix[2] <= tol

\* C7: whatever device count the codec was constructed with, decoding the echo
\* of the encoded source setpoints recovers u within one raw count of u and i
\* within one raw count of i (scale.i times the device count).
C7_RoundTrip ==
    call.op = "decode_echo" =>
        /\ err = "none"
        /\ Within(ret.u, _set_sour_params.u, VALUE_SCALE.u)
        /\ Within(ret.i, _set_sour_params.i, VALUE_SCALE.i * self_DEVICES_AMOUNT)

\* the glossary's status bit-field: flag |-> <<bit, the flag is true when the
\* bit is set (TRUE) or clear (FALSE)>>
Glossary ==
    [remote_control |-> <<31, TRUE>>, dc_input_terminal |-> <<30, TRUE>>,
     uip_mode |-> <<28, TRUE>>, uir_mode |-> <<28, FALSE>>,
     alarms |-> <<27, TRUE>>, alarm_msp_map |-> <<26, TRUE>>,
     alarm_ocd |-> <<25, TRUE>>, alarm_ocp |-> <<24, TRUE>>,
     alarm_opd |-> <<18, TRUE>>, alarm_opp |-> <<17, TRUE>>,
     alarm_ot |-> <<16, TRUE>>, alarm_ovd |-> <<14, TRUE>>,
     alarm_ovp |-> <<13, TRUE>>, rem_sb |-> <<9, TRUE>>,
     alarm_ucd |-> <<8, TRUE>>, alarm_uvd |-> <<7, TRUE>>,
     external_remote_sensing |-> <<6, TRUE>>, internal_remote_sensing |-> <<6, FALSE>>,
     function_gen_active |-> <<5, TRUE>>,
     master |-> <<4, TRUE>>, slave |-> <<4, FALSE>>,
     input_output |-> <<3, TRUE>>,
     sink_mode |-> <<0, TRUE>>, sour_mode |-> <<0, FALSE>>]

\* the flags the glossary gives a payload whose set bits are exactly bits
FlagsOf(bits) == [f \in DOMAIN Glossary |-> (Glossary[f][1] \in bits) = Glossary[f][2]]

\* C9 as claimed: with bit 31 alone set, remote_control is true and every other
\* defined flag is false, except sour_mode and slave.
C9_Bit31OnlyRemoteSourSlave ==
    (call.op = "decode_status" /\ call.msg.data = SingleBit(31)) =>
        \A f \in DOMAIN ret : ret[f] = (f \in {"remote_control", "sour_mode", "slave"})

\* C9 as amended: with bit 31 alone set, remote_control is true and every other
\* defined flag is false, except the four complement flags sour_mode, slave,
\* uir_mode and internal_remote_sensing, which are true because bits 0, 4, 28
\* and 6 are clear; in general each defined flag is true exactly when its
\* glossary bit is set, a complement flag exactly when its bit is clear.
C9_StatusFlagsFollowGlossary ==
    call.op = "decode_status" =>
        /\ err = "none"
        /\ DOMAIN ret = DOMAIN Glossary
        /\ _status_vals = ret
        /\ \A b \in 0 .. 63 : call.msg.data = SingleBit(b) => ret = FlagsOf({b})
        /\ (call.msg.data = [k \in 1 .. 8 |-> 0] => ret = FlagsOf({}))
        /\ (call.msg.data = [k \in 1 .. 8 |-> 255] => ret = FlagsOf(0 .. 63))
        /\ (call.msg.data = SingleBit(31) =>
              \A f \in DOMAIN ret :
                 ret[f] = (f \in {"remote_control", "sour_mode", "slave", "uir_mode",
                                  "internal_remote_sensing"}))

\* the payload with bit 31 alone was decoded
C9_Witness ==
    /\ call.op = "decode_status"
    /\ call.msg.data = <<0, 0, 0, 0, 128, 0, 0, 0>>
    /\ ret.remote_control
    /\ ret.uir_mode
    /\ ~ret.uip_mode
    /\ ~ret.alarms

====
